---- MODULE Spec2Model ----
(***************************************************************************)
(* Model of the Http client of PyCurl (src/HttpOld.py): the configuration  *)
(* setters, reset(), the verb dispatcher _request() with the JSON cookie   *)
(* jar 'cookies.json', and download_large_file().                          *)
(*                                                                         *)
(* A dict is a TLA+ function whose DOMAIN is the set of its keys.  A       *)
(* public method that returns or raises leaves its outcome in ret[c].      *)
(***************************************************************************)
EXTENDS Integers, FiniteSets, Sequences, TLC

\* ---------------------------------------------------------------- bounds
MaxCalls == 3

\* ------------------------------------------------------------ value sets
Clients == {"c1", "c2"}
\* An optional value is None or Some(x).
None == <<>>
Some(x) == <<x>>
NoArg == "-"
Names == {"a", "b"}
Vals == {"1", "2"}
HeaderKeys == {"Authorization", "User-Agent", "Referer", "X-Custom"}
HeaderVals == {"v1", "v2"}
Urls == {"/x"}
Timeouts == {30}
Verbs == {"get", "post", "put", "delete"}
Statuses == {200, 302, 404}
Bodies == {"text", "json", "invalid_json"}
JarKinds == {"missing", "invalid_json", "invalid_utf8", "not_a_dict", "dict"}

EmptyDict == [k \in {} |-> ""]
CookieDicts == UNION {[S -> Vals] : S \in SUBSET Names}

VARIABLES
    session, headers, cookies, auth, timeout, follow_redirects,
    error_message, error_code, base_url,
    pc, combined_cookies, response, all_cookies, ret,
    cookies_json, next_session, closed_sessions, used_sessions,
    http_calls, ncalls, last_call, files, dl, ftp, up, remote

vars == <<session, headers, cookies, auth, timeout, follow_redirects,
          error_message, error_code, base_url,
          pc, combined_cookies, response, all_cookies, ret,
          cookies_json, next_session, closed_sessions, used_sessions,
          http_calls, ncalls, last_call, files, dl, ftp, up, remote>>

config_vars == <<headers, cookies, auth, timeout, follow_redirects>>
error_vars == <<error_message, error_code>>
session_vars == <<session, next_session, closed_sessions>>
request_vars == <<combined_cookies, response, all_cookies>>
upload_vars == <<ftp, up, remote>>

\* ------------------------------------------------------------ cookie jar
\* The jar file: what kind of content it holds, the mapping when that
\* content is a JSON object, and its permissions.
\* (The content of a file that cannot be read is never seen: one content
\* stands for all of them.)
JarFiles ==
    {[kind |-> "dict", dict |-> d, readable |-> TRUE, writable |-> w] :
        d \in CookieDicts, w \in BOOLEAN}
    \cup
    {[kind |-> "dict", dict |-> [k \in Names |-> "1"], readable |-> FALSE, writable |-> w] :
        w \in BOOLEAN}
    \cup
    {[kind |-> k, dict |-> EmptyDict, readable |-> TRUE, writable |-> w] :
        k \in JarKinds \ {"dict"}, w \in BOOLEAN}

\* open('cookies.json', 'r') followed by json.load(file): the exception it
\* raises ("" for none) and the value it returns.
JsonLoad(f) ==
    IF f.kind = "missing" \/ ~f.readable
    THEN [exc |-> "IOError", is_dict |-> FALSE, dict |-> EmptyDict]
    ELSE IF f.kind = "invalid_utf8"
    THEN [exc |-> "UnicodeDecodeError", is_dict |-> FALSE, dict |-> EmptyDict]
    ELSE IF f.kind = "invalid_json"
    THEN [exc |-> "JSONDecodeError", is_dict |-> FALSE, dict |-> EmptyDict]
    ELSE IF f.kind = "not_a_dict"
    THEN [exc |-> "", is_dict |-> FALSE, dict |-> EmptyDict]
    ELSE [exc |-> "", is_dict |-> TRUE, dict |-> f.dict]

\* try: json.load(...) except (IOError, json.JSONDecodeError): {}
LoadCookies(f) ==
    LET l == JsonLoad(f) IN
    IF l.exc \in {"IOError", "JSONDecodeError"}
    THEN [exc |-> "", is_dict |-> TRUE, dict |-> EmptyDict]
    ELSE l

\* A faulty variant of DictMerge: the entries of the first dict win.
DictMergeFirstWins(a, b) ==
    [k \in (DOMAIN a) \cup (DOMAIN b) |-> IF k \in DOMAIN a THEN a[k] ELSE b[k]]

\* {**a, **b}
DictMerge(a, b) ==
    [k \in (DOMAIN a) \cup (DOMAIN b) |-> IF k \in DOMAIN b THEN b[k] ELSE a[k]]

\* The load and the merge {**loaded, **other}: the exception that leaves the
\* try block ("" for none) and the merged dict.  Unpacking a value that is
\* not a mapping raises TypeError.
LoadAndMerge(f, other) ==
    LET l == LoadCookies(f) IN
    IF l.exc # "" THEN [exc |-> l.exc, dict |-> EmptyDict]
    ELSE IF ~l.is_dict THEN [exc |-> "TypeError", dict |-> EmptyDict]
    ELSE [exc |-> "", dict |-> DictMerge(l.dict, other)]

\* ----------------------------------------------------------------- Init
NoResponse == [received |-> FALSE, status |-> 0, cookies |-> EmptyDict, body |-> "unread"]
NoReturn == [kind |-> "none", val |-> NoArg]
\* The locals of download_large_file: download_path (download_dir before
\* the filename is known), file_name, total_size, downloaded_size, the
\* number of chunks iter_content has yielded, and whether it has raised.
NoDownload ==
    [path |-> "", file_name |-> "", total_size |-> 0, downloaded_size |-> 0,
     chunks |-> 0, failed |-> FALSE]

\* A directory of the FTP server is the sequence of its path segments.
Root == <<>>
Home == <<"home">>
\* The FTP object of upload_ftp: whether FTP() has been called, whether
\* ftp.sock is set, whether the control connection is still up, whether the
\* login succeeded, the server's working directory, the number of calls of
\* ftp.quit() and whether a quit has closed the session.
NoFtp ==
    [created |-> FALSE, sock |-> FALSE, alive |-> FALSE, logged_in |-> FALSE,
     cwd |-> Root, quits |-> 0, closed |-> FALSE]
\* The locals of upload_ftp: file_path, upload_dir, the position in dirs,
\* current_dir, the directories ftp.mkd has created and those it was asked
\* to create, in order, the steps that have succeeded, and the value the
\* try block returns.
NoUp ==
    [file_path |-> "", upload_dir |-> "", i |-> 0, current_dir |-> Root,
     made |-> <<>>, stored |-> FALSE, result |-> ""]

Init ==
    /\ session = [c \in Clients |-> IF c = "c1" THEN 0 ELSE 1]
    /\ next_session = 2
    /\ closed_sessions = {}
    /\ used_sessions = {}
    /\ headers = [c \in Clients |-> EmptyDict]
    /\ cookies = [c \in Clients |-> EmptyDict]
    /\ auth = [c \in Clients |-> None]
    /\ timeout = [c \in Clients |-> None]
    /\ follow_redirects = [c \in Clients |-> TRUE]
    /\ error_message = [c \in Clients |-> None]
    /\ error_code = [c \in Clients |-> None]
    /\ base_url = [c \in Clients |-> ""]
    /\ pc = [c \in Clients |-> "idle"]
    /\ combined_cookies = [c \in Clients |-> EmptyDict]
    /\ response = [c \in Clients |-> NoResponse]
    /\ all_cookies = [c \in Clients |-> EmptyDict]
    /\ ret = [c \in Clients |-> NoReturn]
    /\ cookies_json \in JarFiles
    /\ http_calls = 0
    /\ ncalls = 0
    /\ last_call = [client |-> NoArg, op |-> NoArg, key |-> NoArg, val |-> NoArg]
    /\ files = EmptyDict
    /\ dl = [c \in Clients |-> NoDownload]
    /\ ftp = [c \in Clients |-> NoFtp]
    /\ up = [c \in Clients |-> NoUp]
    /\ remote = [dirs |-> {Root, Home}, files |-> {}]

\* A public method is entered by an idle instance; the call is recorded,
\* and http_calls counts the HTTP calls this call issues.
Call(c, op, key, val) ==
    /\ pc[c] = "idle"
    /\ ncalls < MaxCalls
    /\ ncalls' = ncalls + 1
    /\ last_call' = [client |-> c, op |-> op, key |-> key, val |-> val]
    /\ http_calls' = 0

\* The locals of an earlier upload_ftp, its FTP object among them, are gone.
NoUpload(c) ==
    /\ ftp' = [ftp EXCEPT ![c] = NoFtp]
    /\ up' = [up EXCEPT ![c] = NoUp]

\* The locals of an earlier call are gone.
NoLocals(c) ==
    /\ combined_cookies' = [combined_cookies EXCEPT ![c] = EmptyDict]
    /\ response' = [response EXCEPT ![c] = NoResponse]
    /\ all_cookies' = [all_cookies EXCEPT ![c] = EmptyDict]
    /\ dl' = [dl EXCEPT ![c] = NoDownload]
    /\ NoUpload(c)

Returns(c, v) == ret' = [ret EXCEPT ![c] = [kind |-> "return", val |-> v]]
Raises(c, e) == ret' = [ret EXCEPT ![c] = [kind |-> "raise", val |-> e]]

\* -------------------------------------------------------------- setters
\* A faulty variant of SetHeader: a key that is already set keeps its value.
SetHeaderIfAbsent(c, key, value) ==
    headers' = [headers EXCEPT ![c] =
        [k \in (DOMAIN @) \cup {key} |-> IF k \in DOMAIN @ THEN @[k] ELSE value]]

\* self.headers[key] = value
SetHeader(c, key, value) ==
    headers' = [headers EXCEPT ![c] =
        [k \in (DOMAIN @) \cup {key} |-> IF k = key THEN value ELSE @[k]]]

SetterFrame ==
    UNCHANGED <<session_vars, used_sessions, error_vars, base_url, pc, cookies_json, files, remote>>

set_timeout(c) ==
    \E t \in Timeouts :
        /\ Call(c, "set_timeout", NoArg, NoArg)
        /\ NoLocals(c)
        /\ timeout' = [timeout EXCEPT ![c] = Some(t)]
        /\ Returns(c, "None")
        /\ UNCHANGED <<headers, cookies, auth, follow_redirects>>
        /\ SetterFrame

set_header(c) ==
    \E key \in HeaderKeys, value \in HeaderVals :
        /\ Call(c, "set_header", key, value)
        /\ NoLocals(c)
        /\ SetHeader(c, key, value)
        /\ Returns(c, "None")
        /\ UNCHANGED <<cookies, auth, timeout, follow_redirects>>
        /\ SetterFrame

set_referer(c) ==
    \E referer \in HeaderVals :
        /\ Call(c, "set_referer", NoArg, referer)
        /\ NoLocals(c)
        /\ SetHeader(c, "Referer", referer)
        /\ Returns(c, "None")
        /\ UNCHANGED <<cookies, auth, timeout, follow_redirects>>
        /\ SetterFrame

BearerValue(token) == "Bearer " \o token

set_bearer_auth(c) ==
    \E token \in HeaderVals :
        /\ Call(c, "set_bearer_auth", NoArg, token)
        /\ NoLocals(c)
        /\ SetHeader(c, "Authorization", BearerValue(token))
        /\ Returns(c, "None")
        /\ UNCHANGED <<cookies, auth, timeout, follow_redirects>>
        /\ SetterFrame

set_user_agent(c) ==
    \E user_agent \in HeaderVals :
        /\ Call(c, "set_user_agent", NoArg, user_agent)
        /\ NoLocals(c)
        /\ SetHeader(c, "User-Agent", user_agent)
        /\ Returns(c, "None")
        /\ UNCHANGED <<cookies, auth, timeout, follow_redirects>>
        /\ SetterFrame

set_basic_auth(c) ==
    \E username \in {"user"}, password \in {"pw"} :
        /\ Call(c, "set_basic_auth", username, password)
        /\ NoLocals(c)
        /\ auth' = [auth EXCEPT ![c] = <<username, password>>]
        /\ Returns(c, "None")
        /\ UNCHANGED <<headers, cookies, timeout, follow_redirects>>
        /\ SetterFrame

set_follow_redirects(c) ==
    \E follow \in BOOLEAN :
        /\ Call(c, "set_follow_redirects", NoArg, NoArg)
        /\ NoLocals(c)
        /\ follow_redirects' = [follow_redirects EXCEPT ![c] = follow]
        /\ Returns(c, "None")
        /\ UNCHANGED <<headers, cookies, auth, timeout>>
        /\ SetterFrame

\* A faulty variant of set_cookie: the cookie is also written to the jar
\* file.
set_cookie_persisting(c) ==
    \E name \in Names, value \in Vals :
        /\ Call(c, "set_cookie", name, value)
        /\ NoLocals(c)
        /\ cookies' = [cookies EXCEPT ![c] =
              [k \in (DOMAIN @) \cup {name} |-> IF k = name THEN value ELSE @[k]]]
        /\ cookies_json' = [kind |-> "dict", dict |-> cookies'[c],
                            readable |-> TRUE, writable |-> TRUE]
        /\ Returns(c, "None")
        /\ UNCHANGED <<headers, auth, timeout, follow_redirects>>
        /\ UNCHANGED <<session_vars, used_sessions, error_vars, base_url, pc,
                       files, remote>>

set_cookie(c) ==
    \E name \in Names, value \in Vals :
        /\ Call(c, "set_cookie", name, value)
        /\ NoLocals(c)
        /\ cookies' = [cookies EXCEPT ![c] =
              [k \in (DOMAIN @) \cup {name} |-> IF k = name THEN value ELSE @[k]]]
        /\ Returns(c, "None")
        /\ UNCHANGED <<headers, auth, timeout, follow_redirects>>
        /\ SetterFrame

\* ---------------------------------------------------------------- reset
\* A faulty variant of reset: the cookies are not cleared.
reset_keeping_cookies(c) ==
    /\ Call(c, "reset", NoArg, NoArg)
    /\ NoLocals(c)
    /\ base_url' = [base_url EXCEPT ![c] = ""]
    /\ closed_sessions' = closed_sessions \cup {session[c]}
    /\ session' = [session EXCEPT ![c] = next_session]
    /\ next_session' = next_session + 1
    /\ headers' = [headers EXCEPT ![c] = EmptyDict]
    /\ auth' = [auth EXCEPT ![c] = None]
    /\ timeout' = [timeout EXCEPT ![c] = None]
    /\ follow_redirects' = [follow_redirects EXCEPT ![c] = TRUE]
    /\ error_message' = [error_message EXCEPT ![c] = None]
    /\ error_code' = [error_code EXCEPT ![c] = None]
    /\ Returns(c, "None")
    /\ UNCHANGED <<cookies, used_sessions, pc, cookies_json, files, remote>>

reset(c) ==
    /\ Call(c, "reset", NoArg, NoArg)
    /\ NoLocals(c)
    /\ base_url' = [base_url EXCEPT ![c] = ""]
    /\ closed_sessions' = closed_sessions \cup {session[c]}
    /\ session' = [session EXCEPT ![c] = next_session]
    /\ next_session' = next_session + 1
    /\ headers' = [headers EXCEPT ![c] = EmptyDict]
    /\ cookies' = [cookies EXCEPT ![c] = EmptyDict]
    /\ auth' = [auth EXCEPT ![c] = None]
    /\ timeout' = [timeout EXCEPT ![c] = None]
    /\ follow_redirects' = [follow_redirects EXCEPT ![c] = TRUE]
    /\ error_message' = [error_message EXCEPT ![c] = None]
    /\ error_code' = [error_code EXCEPT ![c] = None]
    /\ Returns(c, "None")
    /\ UNCHANGED <<used_sessions, pc, cookies_json, files, remote>>

\* ------------------------------------------------------------- dispatch
\* The exceptions of the model that are requests.exceptions.RequestException.
\* response.json() on an undecodable body raises requests' JSONDecodeError
\* (a RequestException) or a plain ValueError, depending on the installed
\* requests release.
RequestExceptions == {"ConnectionError", "HTTPError", "requests.JSONDecodeError"}
JsonErrors == {"requests.JSONDecodeError", "ValueError"}

\* A response as far as it is known before its body is read.
Responses ==
    [received : {TRUE}, status : Statuses, cookies : CookieDicts, body : {"unread"}]

\* A faulty variant of RaisesForStatus: only a 5xx status raises.
RaisesForServerError(status) == 500 <= status /\ status < 600

\* response.raise_for_status() raises HTTPError for 4xx and 5xx.
RaisesForStatus(status) == 400 <= status /\ status < 600

\* except requests.exceptions.RequestException as e: ... raise
\* code is getattr(e.response, 'status_code', None).
Except(c, e, code) ==
    /\ error_message' = [error_message EXCEPT ![c] = Some(e)]
    /\ error_code' = [error_code EXCEPT ![c] = code]
    /\ Raises(c, e)

\* _request is left: its locals combined_cookies and all_cookies are gone
\* (the response stays with the caller or in the exception).
Leave(c) ==
    /\ pc' = [pc EXCEPT ![c] = "idle"]
    /\ combined_cookies' = [combined_cookies EXCEPT ![c] = EmptyDict]
    /\ all_cookies' = [all_cookies EXCEPT ![c] = EmptyDict]

\* _request up to the HTTP call: load the jar, merge it with self.cookies,
\* clear the error state.  An exception of the load or the merge is not a
\* RequestException and leaves the method before the error state is cleared.
Request(c, method, url) ==
    LET m == LoadAndMerge(cookies_json, cookies[c]) IN
    /\ Call(c, "request", url, NoArg)
    /\ method \in Verbs
    /\ response' = [response EXCEPT ![c] = NoResponse]
    /\ all_cookies' = [all_cookies EXCEPT ![c] = EmptyDict]
    /\ IF m.exc # ""
       THEN /\ Raises(c, m.exc)
            /\ combined_cookies' = [combined_cookies EXCEPT ![c] = EmptyDict]
            /\ UNCHANGED <<error_vars, base_url, pc>>
       ELSE /\ combined_cookies' = [combined_cookies EXCEPT ![c] = m.dict]
            /\ error_message' = [error_message EXCEPT ![c] = None]
            /\ error_code' = [error_code EXCEPT ![c] = None]
            /\ base_url' = [base_url EXCEPT ![c] = url]
            /\ pc' = [pc EXCEPT ![c] = "request"]
            /\ ret' = [ret EXCEPT ![c] = NoReturn]
    /\ dl' = [dl EXCEPT ![c] = NoDownload]
    /\ NoUpload(c)
    /\ UNCHANGED <<config_vars, session_vars, used_sessions, cookies_json, files, remote>>

get(c) == \E url \in Urls : Request(c, "get", url)
post(c) == \E url \in Urls : Request(c, "post", url)
put(c) == \E url \in Urls : Request(c, "put", url)
delete(c) == \E url \in Urls : Request(c, "delete", url)

\* self.session.request(...) and response.raise_for_status()
SessionRequest(c) ==
    /\ pc[c] = "request"
    /\ http_calls' = http_calls + 1
    /\ used_sessions' = used_sessions \cup {session[c]}
    /\ \/ /\ Except(c, "ConnectionError", None)
          /\ Leave(c)
          /\ UNCHANGED response
       \/ \E r \in Responses :
            /\ response' = [response EXCEPT ![c] = r]
            /\ IF RaisesForStatus(r.status)
               THEN /\ Except(c, "HTTPError", Some(r.status))
                    /\ Leave(c)
               ELSE /\ pc' = [pc EXCEPT ![c] = "save_load"]
                    /\ UNCHANGED <<error_vars, ret, combined_cookies, all_cookies>>
    /\ UNCHANGED <<config_vars, session_vars, base_url,
                   cookies_json, ncalls, last_call, files, dl, upload_vars>>

\* _save_cookies: load the jar again and merge the response cookies over it.
\* The only handler around it catches IOError.
SaveLoad(c) ==
    LET m == LoadAndMerge(cookies_json, response[c].cookies) IN
    /\ pc[c] = "save_load"
    /\ IF m.exc # ""
       THEN /\ Raises(c, m.exc)
            /\ Leave(c)
       ELSE /\ all_cookies' = [all_cookies EXCEPT ![c] = m.dict]
            /\ pc' = [pc EXCEPT ![c] = "save_write"]
            /\ UNCHANGED <<ret, combined_cookies>>
    /\ UNCHANGED <<config_vars, session_vars, used_sessions, error_vars, base_url,
                   response, cookies_json, http_calls,
                   ncalls, last_call, files, dl, upload_vars>>

\* A faulty variant of WriteJar: the write merges d into the content the file has
\* at the time of the write.
WriteJarMerging(f, d) ==
    IF f.writable
    THEN [kind |-> "dict",
          dict |-> [k \in (DOMAIN f.dict) \cup (DOMAIN d) |->
                      IF k \in DOMAIN d THEN d[k] ELSE f.dict[k]],
          readable |-> (f.kind = "missing" \/ f.readable), writable |-> TRUE]
    ELSE f

\* open('cookies.json', 'w') and json.dump(all_cookies, file); an IOError
\* is logged and swallowed.
WriteJar(f, d) ==
    IF f.writable
    THEN [kind |-> "dict", dict |-> d,
          readable |-> (f.kind = "missing" \/ f.readable), writable |-> TRUE]
    ELSE f

SaveWrite(c) ==
    /\ pc[c] = "save_write"
    /\ cookies_json' = WriteJar(cookies_json, all_cookies[c])
    /\ pc' = [pc EXCEPT ![c] = "respond"]
    /\ UNCHANGED <<config_vars, session_vars, used_sessions, error_vars, base_url,
                   request_vars, ret, http_calls, ncalls, last_call, files, dl, upload_vars>>

\* return response.json() if the content type is JSON else response.text
\* The body is "text" (content type not JSON), "json" (JSON content type,
\* decodable) or "invalid_json" (JSON content type, not decodable).
Respond(c) ==
    /\ pc[c] = "respond"
    /\ Leave(c)
    /\ \E body \in Bodies :
         /\ response' = [response EXCEPT ![c].body = body]
         /\ IF body = "invalid_json"
            THEN \E e \in JsonErrors :
                    IF e \in RequestExceptions
                    THEN Except(c, e, None)
                    ELSE Raises(c, e) /\ UNCHANGED error_vars
            ELSE Returns(c, body) /\ UNCHANGED error_vars
    /\ UNCHANGED <<config_vars, session_vars, used_sessions, base_url,
                   cookies_json, http_calls, ncalls, last_call, files, dl, upload_vars>>

\* ------------------------------------------------------------- download
MaxChunks == 2
ChunkLens == {0, 2}
PyNone == "None"
DirArgs == {PyNone, "", "downloads"}
MethodArgs == {"get", "POST", "put"}
FileNameArgs == {PyNone, "f.bin"}
ContentLengths == {PyNone, "0", "3"}
ContentDispositions == {PyNone, "inline", "attachment; filename=\"x.bin\""}

\* A faulty variant of Falsy: only None counts as no directory.
IsNone(x) == x = PyNone

\* not download_dir
Falsy(x) == x \in {PyNone, ""}

\* method.lower()
Lower(m) == IF m = "POST" THEN "post" ELSE m

\* int(response.headers.get('content-length', 0))
TotalSize(content_length) ==
    IF content_length = PyNone THEN 0
    ELSE IF content_length = "0" THEN 0
    ELSE 3

\* The filename after 'filename=' stripped of quotes, else file_name.
Filename(content_disposition, file_name) ==
    IF content_disposition = PyNone THEN file_name
    ELSE IF content_disposition = "attachment; filename=\"x.bin\"" THEN "x.bin"
    ELSE file_name

\* os.path.join(download_dir, filename)
PathJoin(dir, name) == dir \o "/" \o name

\* A faulty variant of DownloadFrame: the steps of a download clear the
\* error state.
DownloadFrameClearingError ==
    /\ error_message' = [c \in Clients |-> None]
    /\ error_code' = [c \in Clients |-> None]
    /\ UNCHANGED <<config_vars, session_vars, base_url, request_vars,
                   cookies_json, upload_vars>>

\* What no step of download_large_file changes.
DownloadFrame ==
    UNCHANGED <<config_vars, session_vars, error_vars, base_url, request_vars,
                cookies_json, upload_vars>>

\* download_large_file up to the request: without a download directory it
\* returns False; a method other than get and post raises ValueError, which
\* the handler for requests.RequestException does not catch.
download_large_file(c) ==
    \E download_dir \in DirArgs, method \in MethodArgs, file_name \in FileNameArgs :
        /\ Call(c, "download_large_file", download_dir, method)
        /\ combined_cookies' = [combined_cookies EXCEPT ![c] = EmptyDict]
        /\ response' = [response EXCEPT ![c] = NoResponse]
        /\ all_cookies' = [all_cookies EXCEPT ![c] = EmptyDict]
        /\ NoUpload(c)
        /\ UNCHANGED <<config_vars, session_vars, used_sessions, error_vars,
                       base_url, cookies_json, files, remote>>
        /\ IF Falsy(download_dir)
           THEN /\ Returns(c, "False")
                /\ dl' = [dl EXCEPT ![c] = NoDownload]
                /\ UNCHANGED pc
           ELSE IF Lower(method) \notin {"get", "post"}
           THEN /\ Raises(c, "ValueError")
                /\ dl' = [dl EXCEPT ![c] = NoDownload]
                /\ UNCHANGED pc
           ELSE /\ dl' = [dl EXCEPT ![c] =
                       [path |-> download_dir, file_name |-> file_name,
                        total_size |-> 0, downloaded_size |-> 0, chunks |-> 0,
                        failed |-> FALSE]]
                /\ pc' = [pc EXCEPT ![c] = "download_request"]
                /\ ret' = [ret EXCEPT ![c] = NoReturn]

\* The streaming request, raise_for_status, the choice of the filename and
\* the opening of the destination file.  A RequestException (no response,
\* or a 4xx/5xx one) makes the call return None; the TypeError of
\* os.path.join on a None filename and the IOError of open are not caught.
DownloadRequest(c) ==
    /\ pc[c] = "download_request"
    /\ http_calls' = http_calls + 1
    /\ used_sessions' = used_sessions \cup {session[c]}
    /\ \/ /\ Returns(c, PyNone)
          /\ dl' = [dl EXCEPT ![c] = NoDownload]
          /\ pc' = [pc EXCEPT ![c] = "idle"]
          /\ UNCHANGED files
       \/ \E content_length \in ContentLengths,
             content_disposition \in ContentDispositions,
             can_open \in BOOLEAN :
            LET filename == Filename(content_disposition, dl[c].file_name)
                download_path == PathJoin(dl[c].path, filename)
            IN  IF filename = PyNone
                THEN /\ Raises(c, "TypeError")
                     /\ dl' = [dl EXCEPT ![c] = NoDownload]
                     /\ pc' = [pc EXCEPT ![c] = "idle"]
                     /\ UNCHANGED files
                ELSE IF ~can_open
                THEN /\ Raises(c, "IOError")
                     /\ dl' = [dl EXCEPT ![c] = NoDownload]
                     /\ pc' = [pc EXCEPT ![c] = "idle"]
                     /\ UNCHANGED files
                ELSE /\ dl' = [dl EXCEPT ![c] =
                            [path |-> download_path, file_name |-> dl[c].file_name,
                             total_size |-> TotalSize(content_length),
                             downloaded_size |-> 0, chunks |-> 0,
                             failed |-> FALSE]]
                     /\ files' = [f \in (DOMAIN files) \cup {download_path} |->
                            IF f = download_path THEN <<>> ELSE files[f]]
                     /\ pc' = [pc EXCEPT ![c] = "download"]
                     /\ UNCHANGED ret
    /\ UNCHANGED <<ncalls, last_call>>
    /\ DownloadFrame

\* A faulty variant of DownloadChunk: downloaded_size is set to the length
\* of the chunk instead of growing by it.
DownloadChunkOverwritingCount(c) ==
    /\ pc[c] = "download"
    /\ dl[c].chunks < MaxChunks
    /\ \E chunk \in ChunkLens :
         IF chunk # 0
         THEN /\ files' = [files EXCEPT ![dl[c].path] = Append(@, chunk)]
              /\ dl' = [dl EXCEPT ![c].downloaded_size = chunk,
                                   ![c].chunks = @ + 1]
         ELSE /\ dl' = [dl EXCEPT ![c].chunks = @ + 1]
              /\ UNCHANGED files
    /\ UNCHANGED <<pc, ret, used_sessions, http_calls, ncalls, last_call>>
    /\ DownloadFrame

\* One iteration of the loop over response.iter_content: an empty chunk is
\* skipped, any other is written and counted.
DownloadChunk(c) ==
    /\ pc[c] = "download"
    /\ dl[c].chunks < MaxChunks
    /\ \E chunk \in ChunkLens :
         IF chunk # 0
         THEN /\ files' = [files EXCEPT ![dl[c].path] = Append(@, chunk)]
              /\ dl' = [dl EXCEPT ![c].downloaded_size = @ + chunk,
                                   ![c].chunks = @ + 1]
         ELSE /\ dl' = [dl EXCEPT ![c].chunks = @ + 1]
              /\ UNCHANGED files
    /\ UNCHANGED <<pc, ret, used_sessions, http_calls, ncalls, last_call>>
    /\ DownloadFrame

\* A faulty variant of DownloadAbort: the handler removes the partial file.
DownloadAbortRemovingFile(c) ==
    /\ pc[c] = "download"
    /\ pc' = [pc EXCEPT ![c] = "idle"]
    /\ Returns(c, PyNone)
    /\ dl' = [dl EXCEPT ![c].failed = TRUE]
    /\ files' = [f \in (DOMAIN files) \ {dl[c].path} |-> files[f]]
    /\ UNCHANGED <<used_sessions, http_calls, ncalls, last_call>>
    /\ DownloadFrame

\* iter_content raises a RequestException: the handler returns None and
\* leaves the file as the loop has written it.
DownloadAbort(c) ==
    /\ pc[c] = "download"
    /\ pc' = [pc EXCEPT ![c] = "idle"]
    /\ Returns(c, PyNone)
    /\ dl' = [dl EXCEPT ![c].failed = TRUE]
    /\ UNCHANGED <<files, used_sessions, http_calls, ncalls, last_call>>
    /\ DownloadFrame

\* The stream is exhausted: return download_path if the file exists.
DownloadEnd(c) ==
    /\ pc[c] = "download"
    /\ pc' = [pc EXCEPT ![c] = "idle"]
    /\ IF dl[c].path \in DOMAIN files
       THEN Returns(c, dl[c].path)
       ELSE Returns(c, PyNone)
    /\ UNCHANGED <<dl, files, used_sessions, http_calls, ncalls, last_call>>
    /\ DownloadFrame

\* ------------------------------------------------------------ upload_ftp
\* The local paths handed to upload_ftp: a file, a directory and a path
\* that does not exist.
LocalFiles == {"out/data.bin"}
LocalDirs == {"out"}
FilePaths == {"out/data.bin", "out", "missing.txt"}
\* The remote directories handed to upload_ftp: an absolute path of three
\* levels, one with an empty segment and a trailing slash, a relative one.
UploadDirs == {"/a/b/c", "/a//b/", "up"}

\* A faulty variant of IsFile: os.path.exists, true of a directory too.
PathExists(p) == p \in LocalFiles \cup LocalDirs

\* os.path.isfile(file_path)
IsFile(p) == p \in LocalFiles

\* os.path.basename(file_path)
Basename(p) == IF p = "out/data.bin" THEN "data.bin" ELSE p

\* upload_dir.split('/')
Split(d) ==
    CASE d = "/a/b/c" -> <<"", "a", "b", "c">>
      [] d = "/a//b/" -> <<"", "a", "", "b", "">>
      [] d = "up" -> <<"up">>

\* The segments of a sequence that are not empty, in order.
RECURSIVE NonEmpty(_)
NonEmpty(segs) ==
    IF segs = <<>> THEN <<>>
    ELSE IF Head(segs) = "" THEN NonEmpty(Tail(segs))
    ELSE <<Head(segs)>> \o NonEmpty(Tail(segs))

\* The directory a path names on the server: an absolute path counts from
\* the root, a relative one from the working directory.
Resolve(cwd, d) ==
    IF Head(Split(d)) = "" THEN NonEmpty(Split(d))
    ELSE cwd \o NonEmpty(Split(d))

\* f"{upload_dir}/{os.path.basename(file_path)}"
UploadedPath(upload_dir, file_path) == upload_dir \o "/" \o Basename(file_path)

UploadFrame ==
    UNCHANGED <<config_vars, session_vars, used_sessions, error_vars, base_url,
                request_vars, cookies_json, files, dl, http_calls, ncalls,
                last_call>>

\* An exception reaches the handler of the outer try, which makes the call
\* return None once the finally clause has run.
UploadFails(c) ==
    /\ up' = [up EXCEPT ![c].result = PyNone]
    /\ pc' = [pc EXCEPT ![c] = "ftp_finally"]

\* upload_ftp up to the try block: a path that is not a file returns None.
upload_ftp(c) ==
    \E file_path \in FilePaths, upload_dir \in UploadDirs :
        /\ Call(c, "upload_ftp", file_path, upload_dir)
        /\ combined_cookies' = [combined_cookies EXCEPT ![c] = EmptyDict]
        /\ response' = [response EXCEPT ![c] = NoResponse]
        /\ all_cookies' = [all_cookies EXCEPT ![c] = EmptyDict]
        /\ dl' = [dl EXCEPT ![c] = NoDownload]
        /\ ftp' = [ftp EXCEPT ![c] = NoFtp]
        /\ UNCHANGED <<config_vars, session_vars, used_sessions, error_vars,
                       base_url, cookies_json, files, remote>>
        /\ IF ~IsFile(file_path)
           THEN /\ Returns(c, PyNone)
                /\ up' = [up EXCEPT ![c] = NoUp]
                /\ UNCHANGED pc
           ELSE /\ up' = [up EXCEPT ![c] =
                       [NoUp EXCEPT !.file_path = file_path,
                                    !.upload_dir = upload_dir]]
                /\ pc' = [pc EXCEPT ![c] = "ftp_connect"]
                /\ ret' = [ret EXCEPT ![c] = NoReturn]

\* FTP(), connect, login and set_pasv.  A refused connection leaves
\* ftp.sock unset; a connection that is lost before the welcome message or
\* during the login leaves it set; so does a rejected login.  The server
\* starts the session in the login directory.
FtpConnect(c) ==
    /\ pc[c] = "ftp_connect"
    /\ \/ /\ ftp' = [ftp EXCEPT ![c].created = TRUE]
          /\ UploadFails(c)
       \/ /\ ftp' = [ftp EXCEPT ![c].created = TRUE, ![c].sock = TRUE]
          /\ UploadFails(c)
       \/ /\ ftp' = [ftp EXCEPT ![c].created = TRUE, ![c].sock = TRUE,
                                ![c].alive = TRUE]
          /\ UploadFails(c)
       \/ /\ ftp' = [ftp EXCEPT ![c].created = TRUE, ![c].sock = TRUE,
                                ![c].alive = TRUE, ![c].logged_in = TRUE,
                                ![c].cwd = Home]
          /\ pc' = [pc EXCEPT ![c] = "ftp_cwd"]
          /\ UNCHANGED up
    /\ UNCHANGED <<ret, remote>>
    /\ UploadFrame

\* ftp.cwd(upload_dir): it succeeds when the directory exists; error_perm
\* starts the walk over upload_dir.split('/'); any other exception reaches
\* the outer handler.
FtpCwd(c) ==
    /\ pc[c] = "ftp_cwd"
    /\ LET target == Resolve(ftp[c].cwd, up[c].upload_dir)
       IN  \/ /\ target \in remote.dirs
              /\ ftp' = [ftp EXCEPT ![c].cwd = target]
              /\ pc' = [pc EXCEPT ![c] = "ftp_store"]
              /\ UNCHANGED up
           \/ /\ target \notin remote.dirs
              /\ up' = [up EXCEPT ![c].i = 1, ![c].current_dir = Root]
              /\ pc' = [pc EXCEPT ![c] = "ftp_mkdirs"]
              /\ UNCHANGED ftp
           \/ /\ ftp' = [ftp EXCEPT ![c].alive = FALSE]
              /\ UploadFails(c)
    /\ UNCHANGED <<ret, remote>>
    /\ UploadFrame

\* One iteration of the loop over dirs: an empty segment is skipped; any
\* other is appended to current_dir behind a '/', and the directory is
\* entered, after ftp.mkd when entering it fails with error_perm.  Any other
\* exception, and one of ftp.mkd, makes the call return None.
FtpMkdirs(c) ==
    /\ pc[c] = "ftp_mkdirs"
    /\ LET dirs == Split(up[c].upload_dir)
           i == up[c].i
           current_dir == up[c].current_dir \o <<dirs[i]>>
       IN  IF i > Len(dirs)
           THEN /\ pc' = [pc EXCEPT ![c] = "ftp_store"]
                /\ UNCHANGED <<up, ftp, remote>>
           ELSE IF dirs[i] = ""
           THEN /\ up' = [up EXCEPT ![c].i = i + 1]
                /\ UNCHANGED <<pc, ftp, remote>>
           ELSE \/ /\ current_dir \in remote.dirs
                   /\ ftp' = [ftp EXCEPT ![c].cwd = current_dir]
                   /\ up' = [up EXCEPT ![c].i = i + 1,
                                       ![c].current_dir = current_dir]
                   /\ UNCHANGED <<pc, remote>>
                \/ /\ current_dir \notin remote.dirs
                   /\ remote' = [remote EXCEPT !.dirs = @ \cup {current_dir}]
                   /\ ftp' = [ftp EXCEPT ![c].cwd = current_dir]
                   /\ up' = [up EXCEPT ![c].i = i + 1,
                                       ![c].current_dir = current_dir,
                                       ![c].made = Append(@, current_dir)]
                   /\ UNCHANGED pc
                \/ /\ current_dir \notin remote.dirs
                   /\ up' = [up EXCEPT ![c].current_dir = current_dir,
                                       ![c].result = PyNone]
                   /\ pc' = [pc EXCEPT ![c] = "ftp_finally"]
                   /\ UNCHANGED <<ftp, remote>>
                \/ /\ ftp' = [ftp EXCEPT ![c].alive = FALSE]
                   /\ up' = [up EXCEPT ![c].current_dir = current_dir,
                                       ![c].result = PyNone]
                   /\ pc' = [pc EXCEPT ![c] = "ftp_finally"]
                   /\ UNCHANGED remote
    /\ UNCHANGED ret
    /\ UploadFrame

\* getsize, open and ftp.storbinary into the working directory, then the
\* composition of uploaded_path.  The server can reject the transfer, and
\* the connection can be lost during it.
FtpStore(c) ==
    /\ pc[c] = "ftp_store"
    /\ \/ /\ remote' = [remote EXCEPT !.files =
                  @ \cup {<<ftp[c].cwd, Basename(up[c].file_path)>>}]
          /\ up' = [up EXCEPT ![c].stored = TRUE,
                              ![c].result =
                                  UploadedPath(up[c].upload_dir, up[c].file_path)]
          /\ pc' = [pc EXCEPT ![c] = "ftp_finally"]
          /\ UNCHANGED ftp
       \/ /\ UploadFails(c)
          /\ UNCHANGED <<ftp, remote>>
       \/ /\ ftp' = [ftp EXCEPT ![c].alive = FALSE]
          /\ UploadFails(c)
          /\ UNCHANGED remote
    /\ UNCHANGED ret
    /\ UploadFrame

\* The finally clause: ftp.quit() when ftp.sock is set.  quit sends QUIT
\* and then closes the socket; on a connection that is lost the command
\* raises, the socket stays open and the exception replaces the return.
FtpFinally(c) ==
    /\ pc[c] = "ftp_finally"
    /\ pc' = [pc EXCEPT ![c] = "idle"]
    /\ IF ~ftp[c].sock
       THEN /\ Returns(c, up[c].result)
            /\ UNCHANGED ftp
       ELSE IF ftp[c].alive
       THEN /\ ftp' = [ftp EXCEPT ![c].quits = @ + 1, ![c].closed = TRUE,
                                  ![c].alive = FALSE]
            /\ Returns(c, up[c].result)
       ELSE /\ ftp' = [ftp EXCEPT ![c].quits = @ + 1]
            /\ Raises(c, "EOFError")
    /\ UNCHANGED <<up, remote>>
    /\ UploadFrame

\* ------------------------------------------------------- specifications
Step(c) ==
    \/ set_timeout(c)
    \/ set_referer(c)
    \/ set_header(c)
    \/ set_basic_auth(c)
    \/ set_bearer_auth(c)
    \/ set_user_agent(c)
    \/ set_follow_redirects(c)
    \/ set_cookie(c)
    \/ get(c)
    \/ post(c)
    \/ put(c)
    \/ delete(c)
    \/ SessionRequest(c)
    \/ SaveLoad(c)
    \/ SaveWrite(c)
    \/ Respond(c)
    \/ reset(c)

\* One client instance, every method.
Next == Step("c1")
Spec == Init /\ [][Next]_vars

\* Two client instances dispatching against the same jar file, which can
\* be read and written; the steps of their dispatches interleave.
MaxRaceCalls == 2

Dispatch(c) ==
    \/ (ncalls < MaxRaceCalls /\ get(c))
    \/ SessionRequest(c)
    \/ SaveLoad(c)
    \/ SaveWrite(c)
    \/ Respond(c)

InitRace == Init /\ cookies_json.readable /\ cookies_json.writable
NextRace == \E c \in Clients : Dispatch(c)
SpecRace == InitRace /\ [][NextRace]_vars

\* One client instance: verb dispatches, downloads and uploads.
MaxTransferCalls == 2

Transfer(c) ==
    \/ (ncalls < MaxTransferCalls /\ get(c))
    \/ SessionRequest(c)
    \/ SaveLoad(c)
    \/ SaveWrite(c)
    \/ Respond(c)
    \/ (ncalls < MaxTransferCalls /\ download_large_file(c))
    \/ DownloadRequest(c)
    \/ DownloadChunk(c)
    \/ DownloadAbort(c)
    \/ DownloadEnd(c)
    \/ (ncalls < MaxTransferCalls /\ upload_ftp(c))
    \/ FtpConnect(c)
    \/ FtpCwd(c)
    \/ FtpMkdirs(c)
    \/ FtpStore(c)
    \/ FtpFinally(c)

NextTransfer == Transfer("c1")
SpecTransfer == Init /\ [][NextTransfer]_vars

\* cookies.json is a file other programs can write between the steps of
\* this one: one of them replaces it by a JSON document that is not an
\* object.
JarOverwritten ==
    /\ cookies_json.kind # "not_a_dict"
    /\ cookies_json' = [kind |-> "not_a_dict", dict |-> EmptyDict,
                        readable |-> TRUE, writable |-> cookies_json.writable]
    /\ UNCHANGED <<config_vars, session_vars, used_sessions, error_vars,
                   base_url, pc, request_vars, ret, http_calls, ncalls,
                   last_call, files, dl, upload_vars>>

\* One client instance dispatching while the jar file can be replaced.
NextJar ==
    \/ get("c1")
    \/ SessionRequest("c1")
    \/ SaveLoad("c1")
    \/ SaveWrite("c1")
    \/ Respond("c1")
    \/ JarOverwritten

SpecJar == Init /\ [][NextJar]_vars

\* ---------------------------------------------------------------- claims

\* C1: after a verb dispatch has ended, the error state describes that
\* dispatch: if it raised, the message is set and the code is the status of
\* the response (None when no response was received); if it returned, the
\* message and the code are None.
C1_ErrorStateDescribesLastDispatch ==
    \A c \in Clients :
        (pc[c] = "idle" /\ last_call.client = c /\ last_call.op = "request") =>
            /\ ret[c].kind = "raise" =>
                  /\ error_message[c] # None
                  /\ error_code[c] = IF response[c].received
                                     THEN Some(response[c].status) ELSE None
            /\ ret[c].kind = "return" =>
                  /\ error_message[c] = None
                  /\ error_code[c] = None

\* C2 as stated: the write step of a dispatch whose response has a success
\* status leaves the jar file equal to the loaded content D merged with the
\* response cookies N, N winning.
C2_SaveLeavesMergedJar ==
    [][\A c \in Clients :
        (pc[c] = "save_write" /\ pc'[c] = "respond") =>
            LET D == IF cookies_json.kind = "dict" /\ cookies_json.readable
                     THEN cookies_json.dict ELSE EmptyDict
                N == response[c].cookies
            IN  /\ cookies_json'.kind = "dict"
                /\ DOMAIN cookies_json'.dict = (DOMAIN D) \cup (DOMAIN N)
                /\ \A k \in DOMAIN N : cookies_json'.dict[k] = N[k]
                /\ \A k \in (DOMAIN D) \ (DOMAIN N) : cookies_json'.dict[k] = D[k]]_vars

\* C2 as amended: when the jar file can be written, the write step leaves
\* it equal to D merged with N, N winning; when it cannot, the file is left
\* as it was.
C2_SaveLeavesMergedJarIfWritable ==
    [][\A c \in Clients :
        (pc[c] = "save_write" /\ pc'[c] = "respond") =>
            LET D == IF cookies_json.kind = "dict" /\ cookies_json.readable
                     THEN cookies_json.dict ELSE EmptyDict
                N == response[c].cookies
            IN  IF cookies_json.writable
                THEN /\ cookies_json'.kind = "dict"
                     /\ DOMAIN cookies_json'.dict = (DOMAIN D) \cup (DOMAIN N)
                     /\ \A k \in DOMAIN N : cookies_json'.dict[k] = N[k]
                     /\ \A k \in (DOMAIN D) \ (DOMAIN N) : cookies_json'.dict[k] = D[k]
                ELSE cookies_json' = cookies_json]_vars

\* A dispatch has written the jar: a key of the old content was overridden
\* by the response and another key of the old content was kept.
C2_Witness ==
    /\ pc["c1"] = "respond"
    /\ cookies_json.kind = "dict"
    /\ response["c1"].cookies = [k \in {"a"} |-> "2"]
    /\ cookies_json.dict = [k \in Names |-> IF k = "a" THEN "2" ELSE "1"]

\* C3: the load of the jar never raises and yields the empty mapping for a
\* jar file that is missing, unreadable or does not hold a JSON object: no
\* dispatch ends with an exception of the load, and after such a load the
\* cookies to send are the in-memory cookies alone.
C3_LoadNeverFails ==
    \A c \in Clients :
        (last_call.client = c /\ last_call.op = "request") =>
            /\ ~(ret[c].kind = "raise" /\ ret[c].val \in {"TypeError", "UnicodeDecodeError"})
            /\ (pc[c] = "request" /\ ~(cookies_json.kind = "dict" /\ cookies_json.readable))
                  => combined_cookies[c] = cookies[c]

\* C4: the cookies a dispatch sends are the loaded jar merged with the
\* in-memory cookies: an in-memory name has its in-memory value, a name of
\* the jar alone has its jar value, and there is no other name.
C4_SentCookiesMemoryWins ==
    \A c \in Clients :
        pc[c] = "request" =>
            LET J == IF cookies_json.kind = "dict" /\ cookies_json.readable
                     THEN cookies_json.dict ELSE EmptyDict
            IN  /\ DOMAIN combined_cookies[c] = (DOMAIN J) \cup (DOMAIN cookies[c])
                /\ \A k \in DOMAIN cookies[c] : combined_cookies[c][k] = cookies[c][k]
                /\ \A k \in (DOMAIN J) \ (DOMAIN cookies[c]) : combined_cookies[c][k] = J[k]

\* A dispatch is about to send a cookie set by set_cookie that overrides
\* the jar's value, together with a cookie of the jar alone.
C4_Witness ==
    /\ pc["c1"] = "request"
    /\ cookies["c1"] = [k \in {"a"} |-> "2"]
    /\ cookies_json.kind = "dict" /\ cookies_json.readable
    /\ cookies_json.dict = [k \in Names |-> "1"]
    /\ combined_cookies["c1"] = [k \in Names |-> IF k = "a" THEN "2" ELSE "1"]

\* C5: a failure of the cookie persistence never reaches the caller and
\* never blocks the request: every dispatch issues its HTTP call, and one
\* whose response has a success status returns with the error state clear.
C5_PersistenceFailureNeverSurfaces ==
    \A c \in Clients :
        (pc[c] = "idle" /\ last_call.client = c /\ last_call.op = "request") =>
            /\ http_calls = 1
            /\ (response[c].received /\ response[c].status < 400) =>
                  /\ ret[c].kind = "return"
                  /\ error_message[c] = None
                  /\ error_code[c] = None

\* C6: the jar file is written only by a dispatch whose response has a
\* success status: a step that ends a dispatch on an error status or on a
\* transport failure leaves the file as it was, and so does every step that
\* is not the write step of a dispatch with a success status.
C6_JarWrittenOnlyOnSuccess ==
    [][/\ \A c \in Clients :
            (pc[c] = "request" /\ pc'[c] = "idle") => cookies_json' = cookies_json
       /\ cookies_json' # cookies_json =>
            \E c \in Clients :
                /\ pc[c] = "save_write"
                /\ response[c].received
                /\ response[c].status < 400]_vars

\* A dispatch has failed on an error response that carried cookies, with a
\* jar file that could have been written.
C6_Witness ==
    /\ pc["c1"] = "idle"
    /\ last_call.op = "request"
    /\ ret["c1"] = [kind |-> "raise", val |-> "HTTPError"]
    /\ response["c1"].status = 404
    /\ response["c1"].cookies # EmptyDict
    /\ cookies_json.writable

\* C7: the saves of two clients are not synchronized: each write replaces
\* the whole file by the writer's own merged mapping, whatever the other
\* client has written since the writer's load, so the file ends as the
\* merged mapping of the client that writes last.
C7_LastWriterWins ==
    [][\A c \in Clients :
        (pc[c] = "save_write" /\ pc'[c] = "respond") =>
            /\ cookies_json'.kind = "dict"
            /\ cookies_json'.dict = all_cookies[c]]_vars

\* Lost update: both clients' dispatches have returned, c1 saved cookie
\* 'a' and c2 saved cookie 'b', and the jar holds 'b' alone.
C7_Witness ==
    /\ pc["c1"] = "idle" /\ pc["c2"] = "idle"
    /\ ret["c1"].kind = "return" /\ ret["c2"].kind = "return"
    /\ response["c1"].cookies = [k \in {"a"} |-> "1"]
    /\ response["c2"].cookies = [k \in {"b"} |-> "1"]
    /\ cookies_json.kind = "dict"
    /\ DOMAIN cookies_json.dict = {"b"}

\* C8: once reset() has returned, every configuration field has its
\* construction-time default, the error state is clear and the session is
\* one that was never closed and never used.
C8_ResetRestoresDefaults ==
    \A c \in Clients :
        (last_call.client = c /\ last_call.op = "reset") =>
            /\ headers[c] = EmptyDict
            /\ cookies[c] = EmptyDict
            /\ auth[c] = None
            /\ timeout[c] = None
            /\ follow_redirects[c] = TRUE
            /\ error_message[c] = None
            /\ error_code[c] = None
            /\ session[c] \notin closed_sessions \cup used_sessions

\* reset() has returned as the third call, after a dispatch used the
\* session it closed.
C8_Witness ==
    /\ last_call = [client |-> "c1", op |-> "reset", key |-> NoArg, val |-> NoArg]
    /\ ncalls = 3
    /\ closed_sessions \cap used_sessions # {}

\* C9: a header-setting call stores the value it is given under its key
\* ('Authorization' with 'Bearer ' before the token for set_bearer_auth,
\* 'User-Agent' for set_user_agent, 'Referer' for set_referer) and leaves
\* every other header, and every other client's headers, as they were.
C9_HeaderLastCallWins ==
    [][(ncalls' = ncalls + 1 /\
        last_call'.op \in {"set_header", "set_bearer_auth", "set_user_agent", "set_referer"}) =>
            LET c == last_call'.client
                op == last_call'.op
                key == IF op = "set_header" THEN last_call'.key
                       ELSE IF op = "set_bearer_auth" THEN "Authorization"
                       ELSE IF op = "set_user_agent" THEN "User-Agent"
                       ELSE "Referer"
                value == IF op = "set_bearer_auth" THEN "Bearer " \o last_call'.val
                         ELSE last_call'.val
            IN  /\ DOMAIN headers'[c] = (DOMAIN headers[c]) \cup {key}
                /\ headers'[c][key] = value
                /\ \A k \in (DOMAIN headers[c]) \ {key} : headers'[c][k] = headers[c][k]
                /\ \A d \in Clients \ {c} : headers'[d] = headers[d]]_vars

\* Three header-setting calls have left two headers: set_bearer_auth has
\* overridden an earlier value of 'Authorization' and kept 'Referer'.
C9_Witness ==
    /\ ncalls = 3
    /\ last_call = [client |-> "c1", op |-> "set_bearer_auth", key |-> NoArg, val |-> "v2"]
    /\ DOMAIN headers["c1"] = {"Authorization", "Referer"}
    /\ headers["c1"]["Authorization"] = "Bearer v2"
    /\ headers["c1"]["Referer"] = "v1"
    /\ cookies["c1"] = EmptyDict /\ auth["c1"] = None /\ timeout["c1"] = None
    /\ used_sessions = {} /\ closed_sessions = {}

\* C10: download_large_file called with no download directory returns
\* False, which is no path, issues no HTTP call and creates no file.
C10_DownloadWithoutDirSkips ==
    [][(ncalls' = ncalls + 1 /\ last_call'.op = "download_large_file"
        /\ last_call'.key \in {"None", ""}) =>
            LET c == last_call'.client
            IN  /\ ret'[c] = [kind |-> "return", val |-> "False"]
                /\ pc'[c] = "idle"
                /\ http_calls' = 0
                /\ used_sessions' = used_sessions
                /\ files' = files]_vars

\* A download without a directory has been skipped after an earlier
\* download had created a file.
C10_Witness ==
    /\ last_call.op = "download_large_file"
    /\ last_call.key = ""
    /\ ret["c1"] = [kind |-> "return", val |-> "False"]
    /\ DOMAIN files # {}

\* C11: download_large_file called with a download directory and a method
\* other than get and post returns a failure value to the caller without
\* issuing an HTTP call and without creating a file.
C11_UnsupportedMethodReturnsFailure ==
    [][(ncalls' = ncalls + 1 /\ last_call'.op = "download_large_file"
        /\ last_call'.key \notin {"None", ""} /\ last_call'.val = "put") =>
            LET c == last_call'.client
            IN  /\ ret'[c].kind = "return"
                /\ ret'[c].val \in {"None", "False"}
                /\ pc'[c] = "idle"
                /\ http_calls' = 0
                /\ files' = files]_vars

\* C12: upload_ftp of a local path that is not an existing file returns the
\* failure value at once: no FTP object is created, no connection is made,
\* no login is sent and no quit is sent.
C12_UploadOfMissingFileSkipsFtp ==
    \A c \in Clients :
        (last_call.client = c /\ last_call.op = "upload_ftp"
         /\ last_call.key \notin LocalFiles) =>
            /\ pc[c] = "idle"
            /\ ret[c] = [kind |-> "return", val |-> "None"]
            /\ ~ftp[c].created
            /\ ~ftp[c].sock
            /\ ~ftp[c].logged_in
            /\ ftp[c].quits = 0

\* An upload of a directory path has returned, as the second call.
C12_Witness ==
    /\ last_call.op = "upload_ftp"
    /\ last_call.key = "out"
    /\ ncalls = 2
    /\ ret["c1"].kind = "return"

\* C13: when upload_ftp could not enter the remote directory, has walked
\* all its segments and has transferred the file, the directories it
\* created are prefixes of the remote directory, created shortest first and
\* each once, the session is inside the remote directory, the file is
\* there, and the call returns the remote path.
C13_MissingDirsCreatedInOrder ==
    \A c \in Clients :
        (pc[c] = "idle" /\ last_call.client = c /\ last_call.op = "upload_ftp"
         /\ up[c].stored /\ up[c].i > Len(Split(up[c].upload_dir))) =>
            LET remote_dir == Resolve(Home, up[c].upload_dir)
                made == up[c].made
            IN  /\ \A j \in 1..Len(made) :
                      /\ Len(made[j]) <= Len(remote_dir)
                      /\ made[j] = SubSeq(remote_dir, 1, Len(made[j]))
                /\ \A j \in 1..(Len(made) - 1) : Len(made[j]) < Len(made[j + 1])
                /\ \A j \in 1..Len(made) : made[j] \in remote.dirs
                /\ ftp[c].cwd = remote_dir
                /\ <<remote_dir, Basename(up[c].file_path)>> \in remote.files
                /\ ret[c] = [kind |-> "return",
                             val |-> UploadedPath(up[c].upload_dir, up[c].file_path)]

\* C14: when upload_ftp has ended, a session whose connection was
\* established has been closed, whatever the outcome, and an execution that
\* established no connection has sent no quit.
C14_EstablishedSessionIsClosed ==
    \A c \in Clients :
        (pc[c] = "idle" /\ last_call.client = c /\ last_call.op = "upload_ftp") =>
            /\ ftp[c].sock => ftp[c].closed
            /\ ~ftp[c].sock => (ftp[c].quits = 0 /\ ~ftp[c].closed)

\* C15: upload_ftp always ends by returning, never by raising; it returns
\* the remote path only when connect, login, the entering or creating of
\* the remote directory and the transfer have all succeeded, and None when
\* any of them has failed.
C15_PathOnlyWhenEveryStepSucceeded ==
    \A c \in Clients :
        (pc[c] = "idle" /\ last_call.client = c /\ last_call.op = "upload_ftp") =>
            /\ ret[c].kind = "return"
            /\ ret[c].val # PyNone =>
                   /\ ftp[c].logged_in
                   /\ up[c].stored
                   /\ ret[c].val = UploadedPath(up[c].upload_dir, up[c].file_path)
            /\ ~up[c].stored => ret[c].val = PyNone

\* C16: no step of download_large_file or of upload_ftp, whether the call
\* succeeds or fails, changes the error message or the error code: they stay
\* as the most recent verb dispatch left them.
C16_TransfersLeaveErrorState ==
    [][last_call'.op \in {"download_large_file", "upload_ftp"} =>
           /\ error_message' = error_message
           /\ error_code' = error_code]_vars

\* A download has failed while streaming, after a verb dispatch that left
\* an error in the error state.
C16_Witness ==
    /\ pc["c1"] = "idle"
    /\ last_call.op = "download_large_file"
    /\ http_calls = 1
    /\ dl["c1"].chunks > 0
    /\ ret["c1"] = [kind |-> "return", val |-> "None"]
    /\ error_message["c1"] # None
    /\ error_code["c1"] = Some(404)

\* The number of bytes of a file, which is kept as the sequence of the
\* lengths of the chunks written to it.
RECURSIVE FileSize(_)
FileSize(chunks) ==
    IF chunks = <<>> THEN 0 ELSE Head(chunks) + FileSize(Tail(chunks))

\* C17: when the stream of a download has failed, after any number of
\* chunks, the call has returned the failure value and the destination file
\* is still there, holding exactly the chunks written before the failure.
C17_FailedStreamKeepsPartialFile ==
    \A c \in Clients :
        (pc[c] = "idle" /\ last_call.client = c
         /\ last_call.op = "download_large_file" /\ dl[c].failed) =>
            /\ ret[c] = [kind |-> "return", val |-> "None"]
            /\ dl[c].path \in DOMAIN files
            /\ FileSize(files[dl[c].path]) = dl[c].downloaded_size
            /\ Len(files[dl[c].path]) <= dl[c].chunks

\* The stream has failed after a chunk was written.
C17_Witness ==
    /\ pc["c1"] = "idle"
    /\ last_call.op = "download_large_file"
    /\ dl["c1"].failed
    /\ dl["c1"].downloaded_size = 2
    /\ files[dl["c1"].path] = <<2>>

\* C18: in every step of the streaming loop downloaded_size does not
\* decrease and grows by exactly what the step appends to the file, a chunk
\* of length zero being neither written nor counted; when the stream
\* completes downloaded_size is the size of the file, whatever the declared
\* content length, and the call returns the destination path.
C18_CounterFollowsFile ==
    [][\A c \in Clients :
          pc[c] = "download" =>
              LET path == dl[c].path
              IN  /\ dl'[c].downloaded_size >= dl[c].downloaded_size
                  /\ path \in DOMAIN files'
                  /\ FileSize(files'[path]) - FileSize(files[path]) =
                         dl'[c].downloaded_size - dl[c].downloaded_size
                  /\ \A j \in 1..Len(files'[path]) : files'[path][j] # 0
                  /\ (pc'[c] = "idle" /\ ~dl'[c].failed) =>
                         /\ dl'[c].downloaded_size = FileSize(files'[path])
                         /\ ret'[c] = [kind |-> "return", val |-> path]]_vars

\* A download with no declared content length has completed after a chunk
\* of two bytes and a chunk of length zero.
C18_Witness ==
    /\ pc["c1"] = "idle"
    /\ last_call.op = "download_large_file"
    /\ ~dl["c1"].failed
    /\ dl["c1"].total_size = 0
    /\ dl["c1"].chunks = 2
    /\ dl["c1"].downloaded_size = 2
    /\ ret["c1"].val = dl["c1"].path

\* C19: after a dispatch attempt has ended, however it ended, the error
\* state shows nothing of an earlier attempt: a message that is set is the
\* exception this attempt raised, and a code is set only with a message.
C19_ErrorStateNeverStale ==
    \A c \in Clients :
        (pc[c] = "idle" /\ last_call.client = c /\ last_call.op = "request") =>
            /\ error_message[c] # None =>
                   /\ ret[c].kind = "raise"
                   /\ error_message[c] = Some(ret[c].val)
            /\ error_code[c] # None => error_message[c] # None

\* C20: reset and set_cookie leave the jar file as it was; a step that
\* changes the file is the write of a dispatch with a success status, and
\* every entry it writes is a cookie of that response or an entry the file
\* already had; and a dispatch that follows reset, with a jar file that can
\* be read, sends every cookie of the file.
C20_ClientStateNeverChangesJar ==
    [][/\ (ncalls' = ncalls + 1 /\ last_call'.op \in {"reset", "set_cookie"}) =>
              cookies_json' = cookies_json
       /\ cookies_json' # cookies_json =>
              \E c \in Clients :
                  /\ pc[c] = "save_write"
                  /\ response[c].received
                  /\ response[c].status < 400
                  /\ cookies_json'.kind = "dict"
                  /\ \A k \in DOMAIN cookies_json'.dict :
                         IF k \in DOMAIN response[c].cookies
                         THEN cookies_json'.dict[k] = response[c].cookies[k]
                         ELSE /\ cookies_json.kind = "dict"
                              /\ k \in DOMAIN cookies_json.dict
                              /\ cookies_json'.dict[k] = cookies_json.dict[k]
       /\ (ncalls' = ncalls + 1 /\ last_call'.op = "request"
           /\ last_call.op = "reset" /\ last_call'.client = last_call.client
           /\ cookies_json.kind = "dict" /\ cookies_json.readable) =>
              /\ pc'[last_call'.client] = "request"
              /\ combined_cookies'[last_call'.client] = cookies_json.dict]_vars

\* A dispatch that follows a reset is about to send the cookies of the jar
\* file, after a dispatch through the session that reset has closed.
C20_Witness ==
    /\ pc["c1"] = "request"
    /\ ncalls = 3
    /\ closed_sessions \cap used_sessions # {}
    /\ cookies["c1"] = EmptyDict
    /\ cookies_json.kind = "dict" /\ cookies_json.readable
    /\ cookies_json.dict = [k \in Names |-> "2"]
    /\ combined_cookies["c1"] = cookies_json.dict


====
